---- MODULE Spec2Model ----
\* Model of src/report/s3.rs: the S3 report writer (S3Writer::write_bytes) and
\* the S3 location parser (S3Prefix::from_str).
\*
\* A body is represented by its length in bytes and a chunk of it by the byte
\* range <<lo, hi>> it covers (the slice body[lo..hi]).  An Option<T> value is
\* a sequence: <<>> for None and <<v>> for Some(v).
EXTENDS Integers, Sequences, FiniteSets, TLC

\* ------------------------------------------------------------------ bounds
\* Largest body, in chunks of chunk_size.
MaxChunks == 4

\* --------------------------------------------------------------- constants
MiB == 1024 * 1024
\* s3.rs:85   body.len() >= 50 * 1024 * 1024
MultipartThreshold == 50 * 1024 * 1024
\* s3.rs:110  let chunk_size = 20 * 1024 * 1024;
chunk_size == 20 * 1024 * 1024

\* The threads that may call write_bytes on the one writer (&self is shared).
Threads == {"t1", "t2"}

\* Arguments of write_bytes.
Paths == {"logs/a.txt"}
Mimes == {"text/html"}
EncodingTypes == {"Plain", "Gzip"}
BodyLens ==
    {0, MultipartThreshold - 1, MultipartThreshold}
    \cup {n \in {k * chunk_size + d : k \in 3..MaxChunks, d \in {0, 1}} :
            n <= MaxChunks * chunk_size}

\* The writers S3Writer::create can build.
Writers ==
    { [bucket |-> "bucket-name", prefix |-> "path/prefix"],
      [bucket |-> "b2", prefix |-> ""] }

VARIABLES
    writer,        \* S3Writer { bucket, prefix }
    pc,            \* per thread: where it is inside write_bytes
    args,          \* per thread: the arguments of its current invocation
    upload,        \* per thread: local `upload` (CreateMultipartUploadOutput)
    part,          \* per thread: local `part`
    start,         \* per thread: local `start`
    parts,         \* per thread: local `parts` (CompletedMultipartUpload builder)
    result,        \* per thread: return value of its latest invocation
    calls,         \* per thread: requests sent by its current invocation
    resps,         \* per thread: responses received by its current invocation
    url,           \* from_str: the input string (sequence of characters)
    parsed,        \* from_str: its result
    shown,         \* Display for S3Prefix: the string `parsed` is shown as
    reparsed,      \* from_str: its result on `shown`
    earlier        \* per thread: how the invocation before its current one
                   \* ended (history, kept by SpecSeq only)

vars == <<writer, pc, args, upload, part, start, parts, result, calls, resps,
          url, parsed, shown, reparsed, earlier>>

\* The variables of from_str and Display.
parsing == <<url, parsed, shown, reparsed>>

\* ------------------------------------------------------------ helpers
Min(a, b) == IF a < b THEN a ELSE b

None == <<>>
Some(v) == <<v>>

NoArgs == [path |-> "", body |-> 0, mime |-> "", encoding_type |-> "Plain"]
NoUpload == [upload_id |-> None, key |-> None]
\* The thread has made no invocation before its current one.
NoEarlier == [result |-> "none", answered |-> 0]

\* ------------------------------------------------------------ requests
\* s3.rs:90-94 / 167-171   format!("{}/{}", self.prefix, path)
ObjectKey(prefix, path) == prefix \o "/" \o path

\* s3.rs:97-102 / 174-179  match encoding_type { Plain => {}, Gzip => ... }
ContentEncoding(encoding_type) ==
    IF encoding_type = "Gzip" THEN Some("gzip") ELSE None

EmptyRequest ==
    [op |-> "", bucket |-> None, key |-> None, acl |-> None,
     content_type |-> None, content_encoding |-> None, upload_id |-> None,
     part_number |-> None, body |-> None, multipart_upload |-> None]

\* Mutant: the multipart path forgets the content encoding.
CreateMultipartUploadRequest_noEncoding(w, a) ==
    [EmptyRequest EXCEPT
        !.op = "CreateMultipartUpload",
        !.acl = Some("public-read"),
        !.key = Some(ObjectKey(w.prefix, a.path)),
        !.content_type = Some(a.mime),
        !.bucket = Some(w.bucket)]

\* s3.rs:86-102
CreateMultipartUploadRequest(w, a) ==
    [EmptyRequest EXCEPT
        !.op = "CreateMultipartUpload",
        !.acl = Some("public-read"),
        !.key = Some(ObjectKey(w.prefix, a.path)),
        !.content_type = Some(a.mime),
        !.bucket = Some(w.bucket),
        !.content_encoding = ContentEncoding(a.encoding_type)]

\* Mutant: the single put leaves the prefix out of the key.
PutObjectRequest_keyWithoutPrefix(w, a) ==
    [EmptyRequest EXCEPT
        !.op = "PutObject",
        !.body = Some(<<0, a.body>>),
        !.acl = Some("public-read"),
        !.key = Some(a.path),
        !.content_type = Some(a.mime),
        !.bucket = Some(w.bucket),
        !.content_encoding = ContentEncoding(a.encoding_type)]

\* s3.rs:160-179
PutObjectRequest(w, a) ==
    [EmptyRequest EXCEPT
        !.op = "PutObject",
        !.body = Some(<<0, a.body>>),
        !.acl = Some("public-read"),
        !.key = Some(ObjectKey(w.prefix, a.path)),
        !.content_type = Some(a.mime),
        !.bucket = Some(w.bucket),
        !.content_encoding = ContentEncoding(a.encoding_type)]

\* Mutant: the end of the chunk is not clamped to the end of the body.
Chunk_unclamped(st, len) == <<st, st + chunk_size>>

\* s3.rs:115  &body[start..min(start + chunk_size, body.len())]
Chunk(st, len) == <<st, Min(st + chunk_size, len)>>

\* Mutant: the upload id is the one the writer was given last, by whichever
\* invocation.
UploadPartRequest_latestSession(w, a, up, pn, st) ==
    [EmptyRequest EXCEPT
        !.op = "UploadPart",
        !.part_number = Some(pn),
        !.body = Some(Chunk(st, a.body)),
        !.upload_id =
            Some(CHOOSE id \in 1..Cardinality(Threads) :
                    /\ \E t \in Threads : upload[t].upload_id = Some(id)
                    /\ \A t \in Threads : \A o \in 1..Cardinality(Threads) :
                            upload[t].upload_id = Some(o) => o <= id),
        !.key = up.key,
        !.bucket = Some(w.bucket)]

\* s3.rs:118-125
UploadPartRequest(w, a, up, pn, st) ==
    [EmptyRequest EXCEPT
        !.op = "UploadPart",
        !.part_number = Some(pn),
        !.body = Some(Chunk(st, a.body)),
        !.upload_id = up.upload_id,
        !.key = up.key,
        !.bucket = Some(w.bucket)]

\* s3.rs:144-150
CompleteMultipartUploadRequest(w, up, ps) ==
    [EmptyRequest EXCEPT
        !.op = "CompleteMultipartUpload",
        !.multipart_upload = Some(ps),
        !.upload_id = up.upload_id,
        !.key = up.key,
        !.bucket = Some(w.bucket)]

\* ------------------------------------------------------------ the service
\* A response: ok or not, and the fields write_bytes reads from it.
OkResponse == [ok |-> TRUE, upload_id |-> None, key |-> None, e_tag |-> None]
ErrResponse == [ok |-> FALSE, upload_id |-> None, key |-> None, e_tag |-> None]

\* The upload ids of the service.  An id it hands out is held by no upload
\* session that is still open.
UploadIds == 1..Cardinality(Threads)
FreeUploadIds ==
    {id \in UploadIds : \A t \in Threads : upload[t].upload_id # Some(id)}
FreshUploadId == CHOOSE id \in FreeUploadIds : \A o \in FreeUploadIds : id <= o

\* The service answers CreateMultipartUpload with a fresh upload id and the
\* key of the request.
CreateMultipartUploadOutput(req, id) ==
    [OkResponse EXCEPT !.upload_id = Some(id), !.key = req.key]

\* The service answers UploadPart with the part's entity tag, an opaque token
\* that identifies the part within its upload.
UploadPartOutput(req) ==
    [OkResponse EXCEPT
        !.e_tag = Some(<<"etag", req.upload_id[1], req.part_number[1]>>)]

\* ------------------------------------------------------------ write_bytes
\* Mutant: the threshold itself goes to the single put.
UseMultipart_exclusive(len) == len > MultipartThreshold

\* s3.rs:85  if body.len() >= 50 * 1024 * 1024
UseMultipart(len) == len >= MultipartThreshold

\* Mutant: the loop stops before a final short chunk.
LoopCondition_fullChunksOnly(st, len) == st + chunk_size <= len

\* Mutant: the comparison of the loop is the wrong way round.
LoopCondition_inverted(st, len) == st > len

\* s3.rs:114  while start < body.len()
LoopCondition(st, len) == st < len

\* Mutant: the completed part is put in front of the list.
PushPart_front(ps, e_tag, pn) ==
    <<[e_tag |-> e_tag, part_number |-> pn]>> \o ps

\* s3.rs:128-133  parts.parts(CompletedPart { e_tag, part_number })
PushPart(ps, e_tag, pn) == Append(ps, [e_tag |-> e_tag, part_number |-> pn])

Send(t, req) == calls' = [calls EXCEPT ![t] = Append(@, req)]
Receive(t, resp) == resps' = [resps EXCEPT ![t] = Append(@, resp)]
\* write_bytes returns r; its locals go out of scope.
Return(t, r) ==
    /\ result' = [result EXCEPT ![t] = r]
    /\ pc' = [pc EXCEPT ![t] = "idle"]
    /\ upload' = [upload EXCEPT ![t] = NoUpload]
    /\ part' = [part EXCEPT ![t] = 0]
    /\ start' = [start EXCEPT ![t] = 0]
    /\ parts' = [parts EXCEPT ![t] = <<>>]

\* s3.rs:77-103 and 159-180: a thread enters write_bytes, chooses the strategy
\* from the body length, builds the first request and sends it.
Enter(t, path, body, mime, encoding_type) ==
    /\ pc[t] = "idle"
    /\ LET a == [path |-> path, body |-> body, mime |-> mime,
                 encoding_type |-> encoding_type]
       IN /\ args' = [args EXCEPT ![t] = a]
          /\ IF UseMultipart(body)
             THEN /\ calls' = [calls EXCEPT
                        ![t] = <<CreateMultipartUploadRequest(writer, a)>>]
                  /\ pc' = [pc EXCEPT ![t] = "create_multipart_upload"]
             ELSE /\ calls' = [calls EXCEPT ![t] = <<PutObjectRequest(writer, a)>>]
                  /\ pc' = [pc EXCEPT ![t] = "put_object"]
    /\ resps' = [resps EXCEPT ![t] = <<>>]
    /\ result' = [result EXCEPT ![t] = "running"]
    /\ UNCHANGED <<writer, upload, part, start, parts, parsing>>

\* s3.rs:77-83  write_bytes is called.
WriteBytes(t, path, body, mime, encoding_type) ==
    /\ Enter(t, path, body, mime, encoding_type)
    /\ UNCHANGED earlier

\* s3.rs:77-83  write_bytes is called; the history keeps how the thread's
\* previous invocation ended and how many of its requests were answered.
WriteBytesAgain(t, path, body, mime, encoding_type) ==
    /\ Enter(t, path, body, mime, encoding_type)
    /\ earlier' = [earlier EXCEPT
            ![t] = [result |-> result[t], answered |-> Len(resps[t])]]

\* Mutant: after an invocation that failed inside the loop, the part numbering
\* goes on from the part that failed.
CreateOk_continuesNumbering(t) ==
    /\ pc[t] = "create_multipart_upload"
    /\ LET u == CreateMultipartUploadOutput(calls[t][Len(calls[t])], FreshUploadId)
       IN /\ Receive(t, u)
          /\ upload' = [upload EXCEPT
                ![t] = [upload_id |-> u.upload_id, key |-> u.key]]
    /\ part' = [part EXCEPT
            ![t] = IF earlier[t].result = "err" /\ earlier[t].answered > 1
                   THEN earlier[t].answered - 1 ELSE 1]
    /\ start' = [start EXCEPT ![t] = 0]
    /\ parts' = [parts EXCEPT ![t] = <<>>]
    /\ pc' = [pc EXCEPT ![t] = "loop"]
    /\ UNCHANGED <<writer, args, result, calls, parsing, earlier>>

\* s3.rs:103-104 and 110-113: create_multipart_upload answered Ok(u).
CreateOk(t) ==
    /\ pc[t] = "create_multipart_upload"
    /\ LET u == CreateMultipartUploadOutput(calls[t][Len(calls[t])], FreshUploadId)
       IN /\ Receive(t, u)
          /\ upload' = [upload EXCEPT
                ![t] = [upload_id |-> u.upload_id, key |-> u.key]]
    /\ part' = [part EXCEPT ![t] = 1]
    /\ start' = [start EXCEPT ![t] = 0]
    /\ parts' = [parts EXCEPT ![t] = <<>>]
    /\ pc' = [pc EXCEPT ![t] = "loop"]
    /\ UNCHANGED <<writer, args, result, calls, parsing, earlier>>

\* Mutant: a failed create_multipart_upload is ignored and the loop entered.
CreateErr_ignored(t) ==
    /\ pc[t] = "create_multipart_upload"
    /\ Receive(t, ErrResponse)
    /\ part' = [part EXCEPT ![t] = 1]
    /\ start' = [start EXCEPT ![t] = 0]
    /\ parts' = [parts EXCEPT ![t] = <<>>]
    /\ pc' = [pc EXCEPT ![t] = "loop"]
    /\ UNCHANGED <<writer, args, upload, result, calls, parsing, earlier>>

\* s3.rs:103-108: create_multipart_upload answered Err(e): bail!.
CreateErr(t) ==
    /\ pc[t] = "create_multipart_upload"
    /\ Receive(t, ErrResponse)
    /\ Return(t, "err")
    /\ UNCHANGED <<writer, args, calls, parsing, earlier>>

\* Mutant: the request for the chunk after this one is sent along with it,
\* before this one is answered.
UploadPartSend_pipelined(t) ==
    /\ pc[t] = "loop"
    /\ LoopCondition(start[t], args[t].body)
    /\ calls' = [calls EXCEPT ![t] =
            @ \o << UploadPartRequest(writer, args[t], upload[t], part[t], start[t]),
                    UploadPartRequest(writer, args[t], upload[t], part[t] + 1,
                                      start[t] + chunk_size) >>]
    /\ pc' = [pc EXCEPT ![t] = "upload_part"]
    /\ UNCHANGED <<writer, args, upload, part, start, parts, result, resps,
                   parsing, earlier>>

\* s3.rs:114-126: the loop condition holds; build the upload_part request for
\* the next chunk and send it.
UploadPartSend(t) ==
    /\ pc[t] = "loop"
    /\ LoopCondition(start[t], args[t].body)
    /\ Send(t, UploadPartRequest(writer, args[t], upload[t], part[t], start[t]))
    /\ pc' = [pc EXCEPT ![t] = "upload_part"]
    /\ UNCHANGED <<writer, args, upload, part, start, parts, result, resps,
                   parsing, earlier>>

\* Mutant: `part` is a counter shared by all invocations of the writer.
PartOk_sharedCounter(t) ==
    /\ pc[t] = "upload_part"
    /\ LET p == UploadPartOutput(calls[t][Len(calls[t])])
       IN /\ Receive(t, p)
          /\ parts' = [parts EXCEPT ![t] = PushPart(@, p.e_tag[1], part[t])]
    /\ start' = [start EXCEPT ![t] = @ + chunk_size]
    /\ part' = [u \in Threads |-> IF pc[u] = "idle" THEN part[u] ELSE part[u] + 1]
    /\ pc' = [pc EXCEPT ![t] = "loop"]
    /\ UNCHANGED <<writer, args, upload, result, calls, parsing, earlier>>

\* Mutant: the offset of the loop is not moved forward.
PartOk_noAdvance(t) ==
    /\ pc[t] = "upload_part"
    /\ LET p == UploadPartOutput(calls[t][Len(calls[t])])
       IN /\ Receive(t, p)
          /\ parts' = [parts EXCEPT ![t] = PushPart(@, p.e_tag[1], part[t])]
    /\ part' = [part EXCEPT ![t] = @ + 1]
    /\ pc' = [pc EXCEPT ![t] = "loop"]
    /\ UNCHANGED <<writer, args, upload, start, result, calls, parsing, earlier>>

\* s3.rs:126-134 and 140-141: upload_part answered Ok(p).
PartOk(t) ==
    /\ pc[t] = "upload_part"
    /\ LET p == UploadPartOutput(calls[t][Len(calls[t])])
       IN /\ Receive(t, p)
          /\ parts' = [parts EXCEPT ![t] = PushPart(@, p.e_tag[1], part[t])]
    /\ start' = [start EXCEPT ![t] = @ + chunk_size]
    /\ part' = [part EXCEPT ![t] = @ + 1]
    /\ pc' = [pc EXCEPT ![t] = "loop"]
    /\ UNCHANGED <<writer, args, upload, result, calls, parsing, earlier>>

\* Mutant: a failed upload_part is skipped and the loop goes on.
PartErr_skipped(t) ==
    /\ pc[t] = "upload_part"
    /\ Receive(t, ErrResponse)
    /\ start' = [start EXCEPT ![t] = @ + chunk_size]
    /\ part' = [part EXCEPT ![t] = @ + 1]
    /\ pc' = [pc EXCEPT ![t] = "loop"]
    /\ UNCHANGED <<writer, args, upload, parts, result, calls, parsing, earlier>>

\* Mutant: a failed upload_part is sent again.
PartErr_retried(t) ==
    /\ pc[t] = "upload_part"
    /\ Receive(t, ErrResponse)
    /\ pc' = [pc EXCEPT ![t] = "loop"]
    /\ UNCHANGED <<writer, args, upload, part, start, parts, result, calls,
                   parsing, earlier>>

\* s3.rs:135-137: upload_part answered Err(e): bail!.
PartErr(t) ==
    /\ pc[t] = "upload_part"
    /\ Receive(t, ErrResponse)
    /\ Return(t, "err")
    /\ UNCHANGED <<writer, args, calls, parsing, earlier>>

\* Mutant: the upload is completed after any iteration of the loop.
CompleteSend_early(t) ==
    /\ pc[t] = "loop"
    /\ Send(t, CompleteMultipartUploadRequest(writer, upload[t], parts[t]))
    /\ pc' = [pc EXCEPT ![t] = "complete_multipart_upload"]
    /\ UNCHANGED <<writer, args, upload, part, start, parts, result, resps,
                   parsing, earlier>>

\* s3.rs:114 and 144-151: the loop condition fails; build the
\* complete_multipart_upload request and send it.
CompleteSend(t) ==
    /\ pc[t] = "loop"
    /\ ~LoopCondition(start[t], args[t].body)
    /\ Send(t, CompleteMultipartUploadRequest(writer, upload[t], parts[t]))
    /\ pc' = [pc EXCEPT ![t] = "complete_multipart_upload"]
    /\ UNCHANGED <<writer, args, upload, part, start, parts, result, resps,
                   parsing, earlier>>

\* s3.rs:151-152 and 158: complete_multipart_upload answered Ok(_): Ok(()).
CompleteOk(t) ==
    /\ pc[t] = "complete_multipart_upload"
    /\ Receive(t, OkResponse)
    /\ Return(t, "ok")
    /\ UNCHANGED <<writer, args, calls, parsing, earlier>>

\* Mutant: a failed complete_multipart_upload is swallowed.
CompleteErr_swallowed(t) ==
    /\ pc[t] = "complete_multipart_upload"
    /\ Receive(t, ErrResponse)
    /\ Return(t, "ok")
    /\ UNCHANGED <<writer, args, calls, parsing, earlier>>

\* s3.rs:153-155: complete_multipart_upload answered Err(e): bail!.
CompleteErr(t) ==
    /\ pc[t] = "complete_multipart_upload"
    /\ Receive(t, ErrResponse)
    /\ Return(t, "err")
    /\ UNCHANGED <<writer, args, calls, parsing, earlier>>

\* s3.rs:180-181: put_object answered Ok(_): Ok(()).
PutOk(t) ==
    /\ pc[t] = "put_object"
    /\ Receive(t, OkResponse)
    /\ Return(t, "ok")
    /\ UNCHANGED <<writer, args, calls, parsing, earlier>>

\* s3.rs:182-184: put_object answered Err(e): bail!.
PutErr(t) ==
    /\ pc[t] = "put_object"
    /\ Receive(t, ErrResponse)
    /\ Return(t, "err")
    /\ UNCHANGED <<writer, args, calls, parsing, earlier>>

\* ------------------------------------------------------------ from_str
\* A string is a sequence of one-character strings.
Digits == {"0", "1", "2", "3", "4", "5", "6", "7", "8", "9"}
Letters == {"a", "b", "c", "d", "e", "f", "g", "h", "i", "j", "k", "l", "m",
            "n", "o", "p", "q", "r", "s", "t", "u", "v", "w", "x", "y", "z"}

\* Position of the first (last) character of s that is in cs; 0 when none is.
FirstIn(s, cs) ==
    IF \E i \in 1..Len(s) : s[i] \in cs
    THEN CHOOSE i \in 1..Len(s) : s[i] \in cs /\ \A j \in 1..(i - 1) : s[j] \notin cs
    ELSE 0
LastIn(s, cs) ==
    IF \E i \in 1..Len(s) : s[i] \in cs
    THEN CHOOSE i \in 1..Len(s) :
            s[i] \in cs /\ \A j \in (i + 1)..Len(s) : s[j] \notin cs
    ELSE 0
\* s[..i) and s(i..]: what is before and after position i.
Before(s, i) == SubSeq(s, 1, i - 1)
After(s, i) == SubSeq(s, i + 1, Len(s))
StartsWith(s, p) == Len(s) >= Len(p) /\ SubSeq(s, 1, Len(p)) = p

\* url: the schemes with special parsing rules, and their default ports.
SpecialSchemes ==
    { <<"h", "t", "t", "p">>, <<"h", "t", "t", "p", "s">>, <<"w", "s">>,
      <<"w", "s", "s">>, <<"f", "t", "p">> }
DefaultPort(scheme) ==
    IF scheme \in {<<"h", "t", "t", "p">>, <<"w", "s">>} THEN Some(<<"8", "0">>)
    ELSE IF scheme \in {<<"h", "t", "t", "p", "s">>, <<"w", "s", "s">>}
    THEN Some(<<"4", "4", "3">>)
    ELSE IF scheme = <<"f", "t", "p">> THEN Some(<<"2", "1">>)
    ELSE None

\* url::Host: None, Domain(name), Ipv4(addr) or Ipv6(addr).
NoHost == [kind |-> "None", name |-> <<>>]
HostError == [kind |-> "Error", name |-> <<>>]

\* Characters a host may not contain.
ForbiddenHostChars ==
    {" ", "#", "%", "/", ":", "<", ">", "?", "@", "[", "\\", "]", "^", "|"}

\* The text between the brackets is an IPv6 address: groups of hexadecimal
\* digits separated by colons, with at least two colons.
IsIpv6(s) ==
    /\ \A i \in 1..Len(s) :
            s[i] \in Digits \cup {"a", "b", "c", "d", "e", "f", ":"}
    /\ Cardinality({i \in 1..Len(s) : s[i] = ":"}) \in 2..7

\* The host is made of numbers and dots and ends in a number: an IPv4 address.
IsIpv4(s) ==
    /\ Len(s) > 0
    /\ \A i \in 1..Len(s) : s[i] \in Digits \cup {"."}
    /\ s[Len(s)] \in Digits
    /\ Cardinality({i \in 1..Len(s) : s[i] = "."}) <= 3

\* url Host::parse_opaque, the host of a URL whose scheme is not special: an
\* IPv6 address when in brackets, otherwise a domain whatever it looks like.
ParseOpaqueHost(s) ==
    IF StartsWith(s, <<"[">>)
    THEN IF s[Len(s)] = "]" /\ IsIpv6(SubSeq(s, 2, Len(s) - 1))
         THEN [kind |-> "Ipv6", name |-> SubSeq(s, 2, Len(s) - 1)]
         ELSE HostError
    ELSE IF \E i \in 1..Len(s) : s[i] \in ForbiddenHostChars THEN HostError
    ELSE IF s = <<>> THEN NoHost
    ELSE [kind |-> "Domain", name |-> s]

\* url Host::parse, the host of a URL whose scheme is special: an IPv6 address
\* when in brackets, an IPv4 address when it ends in a number, otherwise a
\* domain.  An empty host is an error.
ParseSpecialHost(s) ==
    IF StartsWith(s, <<"[">>)
    THEN IF s[Len(s)] = "]" /\ IsIpv6(SubSeq(s, 2, Len(s) - 1))
         THEN [kind |-> "Ipv6", name |-> SubSeq(s, 2, Len(s) - 1)]
         ELSE HostError
    ELSE IF s = <<>> \/ \E i \in 1..Len(s) : s[i] \in ForbiddenHostChars
    THEN HostError
    ELSE IF IsIpv4(s) THEN [kind |-> "Ipv4", name |-> s]
    ELSE [kind |-> "Domain", name |-> s]

\* url Parser::parse_userinfo: the authority up to its last "@" is the user
\* information, username ":" password; an empty password is no password.
ParseUserinfo(auth) ==
    LET at == LastIn(auth, {"@"})
        info == Before(auth, at)
        colon == FirstIn(info, {":"})
    IN IF at = 0 THEN [username |-> <<>>, password |-> None, rest |-> auth]
       ELSE [username |-> IF colon = 0 THEN info ELSE Before(info, colon),
             password |-> IF colon = 0 \/ After(info, colon) = <<>>
                          THEN None ELSE Some(After(info, colon)),
             rest |-> After(auth, at)]

\* The text of s up to its first character in cs (head), and what follows
\* that character (tail): None when s has no such character.
SplitAt(s, cs) ==
    LET i == FirstIn(s, cs)
    IN IF i = 0 THEN [head |-> s, tail |-> None]
       ELSE [head |-> Before(s, i), tail |-> Some(After(s, i))]

\* url Parser::parse_port: decimal digits; no digit is no port, and so is the
\* default port of the scheme.
PortOk(portStr) ==
    /\ \A i \in 1..Len(portStr) : portStr[i] \in Digits
    /\ Len(portStr) <= 4
ParsePort(portStr, scheme) ==
    IF portStr = <<>> \/ Some(portStr) = DefaultPort(scheme)
    THEN None ELSE Some(portStr)

\* url Parser::parse_host: Host::parse for a special scheme, and
\* Host::parse_opaque for any other.
ParseHost(hostStr, scheme) ==
    IF scheme \in SpecialSchemes THEN ParseSpecialHost(hostStr)
    ELSE ParseOpaqueHost(hostStr)

\* url Parser::parse_host_and_port: the host ends at the first ":" outside
\* brackets; what follows is the port.
SplitHostPort(hp) ==
    LET close == IF StartsWith(hp, <<"[">>) THEN FirstIn(hp, {"]"}) ELSE 0
        colon == FirstIn(After(hp, close), {":"})
    IN IF colon = 0 THEN [host |-> hp, port |-> <<>>]
       ELSE [host |-> Before(hp, close + colon),
             port |-> After(hp, close + colon)]
HostAndPort(split, scheme) ==
    [ok |-> ParseHost(split.host, scheme).kind # "Error" /\ PortOk(split.port),
     host |-> ParseHost(split.host, scheme),
     port |-> ParsePort(split.port, scheme)]
ParseHostAndPort(hp, scheme) == HostAndPort(SplitHostPort(hp), scheme)

UrlError ==
    [ok |-> FALSE, scheme |-> <<>>, username |-> <<>>, password |-> None,
     host |-> NoHost, port |-> None, path |-> <<>>, query |-> None,
     fragment |-> None]

\* The scheme is a letter followed by letters, digits, "+", "-" and ".".
SchemeOk(scheme) ==
    /\ scheme # <<>>
    /\ scheme[1] \in Letters
    /\ \A i \in 1..Len(scheme) :
            scheme[i] \in Letters \cup Digits \cup {"+", "-", "."}

\* The number of slashes in front of the authority: any number of them for a
\* special scheme, exactly two otherwise; without them there is no authority.
LeadingSlashes(s) ==
    IF \E i \in 1..Len(s) : s[i] # "/"
    THEN (CHOOSE i \in 1..Len(s) : s[i] # "/" /\ \A j \in 1..(i - 1) : s[j] = "/") - 1
    ELSE Len(s)
HasAuthority(scheme, hier) ==
    scheme \in SpecialSchemes \/ StartsWith(hier, <<"/", "/">>)
AuthorityAndPath(scheme, hier) ==
    SubSeq(hier,
           (IF scheme \in SpecialSchemes THEN LeadingSlashes(hier) ELSE 2) + 1,
           Len(hier))

\* The authority ends at the first "/": the path starts there.
PathOf(scheme, ap) ==
    IF FirstIn(ap, {"/"}) = 0
    THEN IF scheme \in SpecialSchemes THEN <<"/">> ELSE <<>>
    ELSE SubSeq(ap, FirstIn(ap, {"/"}), Len(ap))

\* url Parser::after_double_slash: user information, host and port, path.
WithAuthority(scheme, userinfo, hp, path, query, fragment) ==
    IF ~hp.ok THEN UrlError
    ELSE IF /\ hp.host.kind = "None"
            /\ (userinfo.username # <<>> \/ userinfo.password # None
                \/ hp.port # None)
    THEN UrlError
    ELSE [ok |-> TRUE, scheme |-> scheme, username |-> userinfo.username,
          password |-> userinfo.password, host |-> hp.host, port |-> hp.port,
          path |-> path, query |-> query, fragment |-> fragment]
AfterDoubleSlash(scheme, userinfo, path, query, fragment) ==
    WithAuthority(scheme, userinfo, ParseHostAndPort(userinfo.rest, scheme),
                  path, query, fragment)

\* What follows the scheme, without query and fragment: "//" authority path,
\* or a path alone.
ParseHier(scheme, hier, query, fragment) ==
    IF ~HasAuthority(scheme, hier)
    THEN [ok |-> TRUE, scheme |-> scheme, username |-> <<>>,
          password |-> None, host |-> NoHost, port |-> None, path |-> hier,
          query |-> query, fragment |-> fragment]
    ELSE AfterDoubleSlash(
            scheme,
            ParseUserinfo(SplitAt(AuthorityAndPath(scheme, hier), {"/"}).head),
            PathOf(scheme, AuthorityAndPath(scheme, hier)),
            query, fragment)
ParseQuery(scheme, q, fragment) == ParseHier(scheme, q.head, q.tail, fragment)
ParseFragment(scheme, f) == ParseQuery(scheme, SplitAt(f.head, {"?"}), f.tail)
ParseScheme(sc) ==
    IF sc.tail = None \/ ~SchemeOk(sc.head) THEN UrlError
    ELSE ParseFragment(sc.head, SplitAt(sc.tail[1], {"#"}))

\* url Url::parse, for strings without dot segments and without characters
\* that the parser percent-encodes, drops or lower-cases.
\*   scheme ":" [ "//" [ userinfo "@" ] host [ ":" port ] ] path
\*   [ "?" query ] [ "#" fragment ]
UrlParse(s) == ParseScheme(SplitAt(s, {":"}))

\* The result of from_str: Err(BadUrl), or Ok(S3Prefix { bucket, prefix }).
BadUrl == [ok |-> FALSE, bucket |-> <<>>, prefix |-> <<>>]

\* s3.rs:49-53  parsed.path().get(1..).map(PathBuf::from).unwrap_or_default()
PrefixOf(path) == IF Len(path) >= 1 THEN SubSeq(path, 2, Len(path)) ELSE <<>>

\* s3.rs:28-55  S3Prefix::from_str
FromStr(s) ==
    LET p == UrlParse(s)
    IN IF ~p.ok THEN BadUrl
       ELSE IF \/ p.scheme # <<"s", "3">>
               \/ p.username # <<>>
               \/ p.password # None
               \/ p.port # None
               \/ p.query # None
               \/ p.fragment # None
       THEN BadUrl
       ELSE IF p.host.kind = "Domain"
       THEN [ok |-> TRUE, bucket |-> p.host.name, prefix |-> PrefixOf(p.path)]
       ELSE BadUrl

\* The location strings given to from_str, by their anatomy.
LocSchemes == { <<"s", "3">>, <<"h", "t", "t", "p", "s">> }
LocUserinfos ==
    { <<>>, <<"u", "s", "e", "r", "@">>,
      <<"u", "s", "e", "r", ":", "p", "a", "s", "s", "@">>,
      <<":", "p", "a", "s", "s", "@">> }
LocDomainHosts ==
    { <<"b", "u", "c", "k", "e", "t", "-", "n", "a", "m", "e">>,
      <<"e", "x", "a", "m", "p", "l", "e", ".", "c", "o", "m">> }
LocIpHosts ==
    { <<"1", "2", "7", ".", "0", ".", "0", ".", "1">>,
      <<"[", ":", ":", "1", "]">> }
LocHosts == LocDomainHosts \cup LocIpHosts
LocPorts == { <<>>, <<":", "8", "0">> }
LocPaths ==
    { <<>>, <<"/">>,
      <<"/", "p", "a", "t", "h", "/", "p", "r", "e", "f", "i", "x">>,
      <<"/", "/", "p", "a", "t", "h">> }
LocQueries == { <<>>, <<"?", "q", "u", "e", "r", "y">> }
LocFragments == { <<>>, <<"#", "f", "r", "a", "g", "m", "e", "n", "t">> }
Locations ==
    [scheme : LocSchemes, userinfo : LocUserinfos, host : LocHosts,
     port : LocPorts, path : LocPaths, query : LocQueries,
     fragment : LocFragments]
NoLocation ==
    [scheme |-> <<>>, userinfo |-> <<>>, host |-> <<>>, port |-> <<>>,
     path |-> <<>>, query |-> <<>>, fragment |-> <<>>]

\* The string a location is written as.
Text(loc) ==
    loc.scheme \o <<":", "/", "/">> \o loc.userinfo \o loc.host \o loc.port
    \o loc.path \o loc.query \o loc.fragment

\* S3Prefix::from_str(url) is called on the string of the location.
Parse ==
    /\ parsed = None
    /\ parsed' = Some(FromStr(Text(url)))
    /\ UNCHANGED <<writer, pc, args, upload, part, start, parts, result,
                   calls, resps, url, shown, reparsed, earlier>>

\* Mutant: the separator between bucket and prefix is left out.
Display_noSeparator(p) == <<"s", "3", ":", "/", "/">> \o p.bucket \o p.prefix

\* s3.rs:194-198  format_args!("s3://{}/{}", self.bucket, self.prefix.display())
Display(p) == <<"s", "3", ":", "/", "/">> \o p.bucket \o <<"/">> \o p.prefix

\* The S3Prefix that from_str returned is shown: to_string().
Show ==
    /\ parsed # None
    /\ parsed[1].ok
    /\ shown = None
    /\ shown' = Some(Display(parsed[1]))
    /\ UNCHANGED <<writer, pc, args, upload, part, start, parts, result,
                   calls, resps, url, parsed, reparsed, earlier>>

\* S3Prefix::from_str is called on the string shown.
Reparse ==
    /\ shown # None
    /\ reparsed = None
    /\ reparsed' = Some(FromStr(shown[1]))
    /\ UNCHANGED <<writer, pc, args, upload, part, start, parts, result,
                   calls, resps, url, parsed, shown, earlier>>

\* s3.rs:66-73  S3Writer::create; no thread is inside write_bytes yet.
Init ==
    /\ writer \in Writers
    /\ pc = [t \in Threads |-> "idle"]
    /\ args = [t \in Threads |-> NoArgs]
    /\ upload = [t \in Threads |-> NoUpload]
    /\ part = [t \in Threads |-> 0]
    /\ start = [t \in Threads |-> 0]
    /\ parts = [t \in Threads |-> <<>>]
    /\ result = [t \in Threads |-> "none"]
    /\ calls = [t \in Threads |-> <<>>]
    /\ resps = [t \in Threads |-> <<>>]
    /\ url = NoLocation
    /\ parsed = None
    /\ shown = None
    /\ reparsed = None
    /\ earlier = [t \in Threads |-> NoEarlier]

Next ==
    \/ \E t \in Threads, path \in Paths, body \in BodyLens, mime \in Mimes,
          encoding_type \in EncodingTypes :
            WriteBytes(t, path, body, mime, encoding_type)
    \/ \E t \in Threads : CreateOk(t)
    \/ \E t \in Threads : CreateErr(t)
    \/ \E t \in Threads : UploadPartSend(t)
    \/ \E t \in Threads : PartOk(t)
    \/ \E t \in Threads : PartErr(t)
    \/ \E t \in Threads : CompleteSend(t)
    \/ \E t \in Threads : CompleteOk(t)
    \/ \E t \in Threads : CompleteErr(t)
    \/ \E t \in Threads : PutOk(t)
    \/ \E t \in Threads : PutErr(t)

Spec == Init /\ [][Next]_vars

\* What thread t does once it is inside write_bytes: the steps of its own
\* code and the answers of the service to its requests.
Progress(t) ==
    \/ CreateOk(t)
    \/ CreateErr(t)
    \/ UploadPartSend(t)
    \/ PartOk(t)
    \/ PartErr(t)
    \/ CompleteSend(t)
    \/ CompleteOk(t)
    \/ CompleteErr(t)
    \/ PutOk(t)
    \/ PutErr(t)

\* One thread calls write_bytes, again and again.
Callers == {"t1"}
NextLive ==
    \/ \E t \in Callers, path \in Paths, body \in BodyLens, mime \in Mimes,
          encoding_type \in EncodingTypes :
            WriteBytes(t, path, body, mime, encoding_type)
    \/ \E t \in Callers : Progress(t)

\* The writer with a calling thread that keeps running and a service that
\* answers every request: block_on(request.send()) returns.
SpecLive ==
    Init /\ [][NextLive]_vars /\ \A t \in Callers : WF_vars(Progress(t))

\* One thread calls write_bytes time after time; the history variable keeps
\* the end of the call before.
NextSeq ==
    \/ \E t \in Callers, path \in Paths, body \in BodyLens, mime \in Mimes,
          encoding_type \in EncodingTypes :
            WriteBytesAgain(t, path, body, mime, encoding_type)
    \/ \E t \in Callers : Progress(t)

SpecSeq == Init /\ [][NextSeq]_vars

\* from_str alone: any of the location strings is parsed; the writer is idle.
InitParse ==
    /\ writer \in Writers
    /\ pc = [t \in Threads |-> "idle"]
    /\ args = [t \in Threads |-> NoArgs]
    /\ upload = [t \in Threads |-> NoUpload]
    /\ part = [t \in Threads |-> 0]
    /\ start = [t \in Threads |-> 0]
    /\ parts = [t \in Threads |-> <<>>]
    /\ result = [t \in Threads |-> "none"]
    /\ calls = [t \in Threads |-> <<>>]
    /\ resps = [t \in Threads |-> <<>>]
    /\ url \in Locations
    /\ parsed = None
    /\ shown = None
    /\ reparsed = None
    /\ earlier = [t \in Threads |-> NoEarlier]

NextParse ==
    \/ Parse
    \/ Show
    \/ Reparse

SpecParse == InitParse /\ [][NextParse]_vars

TypeOK ==
    /\ writer \in Writers
    /\ \A t \in Threads :
        /\ pc[t] \in {"idle", "create_multipart_upload", "loop", "upload_part",
                      "complete_multipart_upload", "put_object"}
        /\ result[t] \in {"none", "running", "ok", "err"}
        /\ Len(resps[t]) <= Len(calls[t])

\* ------------------------------------------------------------ observations
\* Thread t has entered write_bytes at least once: args, calls, resps and
\* result describe its latest invocation.
Invoked(t) == result[t] # "none"
\* The latest invocation of t has returned.
Returned(t) == result[t] \in {"ok", "err"}
\* Positions in the request log of t that hold a request of kind op.
Ops(t, op) == {i \in 1..Len(calls[t]) : calls[t][i].op = op}
\* The i-th request of t has been answered, and with an error.
Failed(t, i) == i <= Len(resps[t]) /\ ~resps[t][i].ok
\* Every request of t has been answered, and none with an error.
AllSucceeded(t) ==
    /\ Len(resps[t]) = Len(calls[t])
    /\ \A i \in 1..Len(resps[t]) : resps[t][i].ok
\* The upload_part requests of t, in the order sent.
UploadParts(t) == SelectSeq(calls[t], LAMBDA r : r.op = "UploadPart")
\* ceil(n / 20 MiB)
PartCount(n) == (n + 20 * MiB - 1) \div (20 * MiB)
SizeOf(req) == req.body[1][2] - req.body[1][1]

\* ------------------------------------------------------------ claims

\* C1: the strategy depends only on the body length.  An invocation with a
\* body shorter than 50 MiB issues exactly one request, a PutObject, and none
\* of the multipart requests; an invocation with a body of 50 MiB or more
\* issues no PutObject and its first request is CreateMultipartUpload.
C1_StrategySelection ==
    \A t \in Threads : Invoked(t) =>
        IF args[t].body < 50 * MiB
        THEN /\ Len(calls[t]) = 1
             /\ calls[t][1].op = "PutObject"
        ELSE /\ Ops(t, "PutObject") = {}
             /\ calls[t][1].op = "CreateMultipartUpload"

\* C1 witness: one finished invocation with a body of 50 MiB - 1 bytes, and
\* another with a body of exactly 50 MiB that is past its first request.
C1_Witness ==
    \E t, u \in Threads :
        /\ args[t].body = 50 * MiB - 1 /\ result[t] = "ok"
        /\ args[u].body = 50 * MiB /\ Len(calls[u]) > 1

\* C2: a multipart invocation in which every service call succeeded uploaded
\* its body of N bytes as exactly ceil(N / 20 MiB) parts, numbered 1, 2, ...
\* in the order sent; every part but the last has 20 MiB, the last has
\* N mod 20 MiB bytes (20 MiB when that is 0).
C2_Chunking ==
    \A t \in Threads :
        (Returned(t) /\ AllSucceeded(t) /\ args[t].body >= 50 * MiB) =>
            LET N == args[t].body
                up == UploadParts(t)
            IN /\ Len(up) = PartCount(N)
               /\ \A k \in 1..Len(up) :
                    /\ up[k].part_number = Some(k)
                    /\ k < Len(up) => SizeOf(up[k]) = 20 * MiB
                    /\ k = Len(up) =>
                         SizeOf(up[k]) = IF N % (20 * MiB) = 0
                                         THEN 20 * MiB
                                         ELSE N % (20 * MiB)

\* C2 witness: a successful multipart invocation whose last part is short, and
\* one whose body is a multiple of the chunk size.
C2_Witness ==
    \E t, u \in Threads :
        /\ result[t] = "ok" /\ args[t].body = 60 * MiB + 1
        /\ result[u] = "ok" /\ args[u].body = 60 * MiB

\* C3: when an UploadPart request has failed, it is the last request of its
\* invocation (no later part, no CompleteMultipartUpload) and the invocation
\* has returned an error.
C3_PartFailureStops ==
    \A t \in Threads : \A i \in Ops(t, "UploadPart") :
        Failed(t, i) =>
            /\ i = Len(calls[t])
            /\ Ops(t, "CompleteMultipartUpload") = {}
            /\ pc[t] = "idle"
            /\ result[t] = "err"

\* C3 witness: the second UploadPart of an invocation with three parts or
\* more has failed.
C3_Witness ==
    \E t \in Threads :
        /\ PartCount(args[t].body) >= 3
        /\ Len(calls[t]) = 3
        /\ calls[t][3].op = "UploadPart"
        /\ Failed(t, 3)

\* C4: the part list of every CompleteMultipartUpload request is in ascending
\* part-number order: its j-th entry has part number j.
C4_CompletionOrdered ==
    \A t \in Threads : \A i \in Ops(t, "CompleteMultipartUpload") :
        LET ps == calls[t][i].multipart_upload[1]
        IN \A j \in 1..Len(ps) : ps[j].part_number = j

\* C4 witness: a CompleteMultipartUpload request listing four parts was sent.
C4_Witness ==
    \E t \in Threads : \E i \in Ops(t, "CompleteMultipartUpload") :
        Len(calls[t][i].multipart_upload[1]) = 4

\* C5: the PutObject request and the CreateMultipartUpload request carry no
\* content-encoding when the encoding is Plain, and content-encoding gzip
\* when it is Gzip.
C5_EncodingMetadata ==
    \A t \in Threads :
        \A i \in Ops(t, "PutObject") \cup Ops(t, "CreateMultipartUpload") :
            /\ args[t].encoding_type = "Plain" =>
                    calls[t][i].content_encoding = None
            /\ args[t].encoding_type = "Gzip" =>
                    calls[t][i].content_encoding = Some("gzip")

\* C5 witness: a Gzip invocation on the multipart path next to a Plain one on
\* the single-put path, and the other way round.
C5_Witness ==
    \E t, u \in Threads :
        /\ args[t].encoding_type = "Gzip"
        /\ Ops(t, "CreateMultipartUpload") # {}
        /\ args[u].encoding_type = "Plain"
        /\ Ops(u, "PutObject") # {}

\* C6: a returned invocation returned Ok exactly when every request it issued
\* succeeded, and then it issued all of its requests (the one PutObject, or
\* CreateMultipartUpload, every UploadPart and CompleteMultipartUpload); with
\* any failed request it returned an error.
C6_OkIffAllSucceeded ==
    \A t \in Threads : Returned(t) =>
        /\ result[t] = "ok" <=> AllSucceeded(t)
        /\ (\E i \in 1..Len(calls[t]) : Failed(t, i)) => result[t] = "err"
        /\ result[t] = "ok" =>
            IF args[t].body < 50 * MiB
            THEN Len(calls[t]) = 1
            ELSE /\ Len(calls[t]) = PartCount(args[t].body) + 2
                 /\ calls[t][Len(calls[t])].op = "CompleteMultipartUpload"

\* C6 witness: one invocation returned Ok on the multipart path and another
\* returned an error because its CompleteMultipartUpload failed.
C6_Witness ==
    \E t, u \in Threads :
        /\ result[t] = "ok" /\ args[t].body >= 50 * MiB
        /\ result[u] = "err"
        /\ \E i \in Ops(u, "CompleteMultipartUpload") : Failed(u, i)

\* C7: when the CreateMultipartUpload request has failed, it is the only
\* request of its invocation, which has returned an error.
C7_InitiateFailure ==
    \A t \in Threads : \A i \in Ops(t, "CreateMultipartUpload") :
        Failed(t, i) =>
            /\ calls[t] = <<calls[t][i]>>
            /\ pc[t] = "idle"
            /\ result[t] = "err"

\* C7 witness: a CreateMultipartUpload request has failed.
C7_Witness ==
    \E t \in Threads : \E i \in Ops(t, "CreateMultipartUpload") : Failed(t, i)

\* C8: no step of an invocation is attempted twice: no two of its requests
\* are of the same kind with the same part number, and a failed request is
\* the last request of the invocation.
C8_NoRetries ==
    \A t \in Threads :
        /\ \A i, j \in 1..Len(calls[t]) :
            (i < j /\ calls[t][i].op = calls[t][j].op) =>
                calls[t][i].part_number # calls[t][j].part_number
        /\ \A i \in 1..Len(calls[t]) : Failed(t, i) => i = Len(calls[t])

\* C8 witness: an invocation that sent at least two UploadPart requests ended
\* with a failed request.
C8_Witness ==
    \E t \in Threads :
        /\ Cardinality(Ops(t, "UploadPart")) >= 2
        /\ Failed(t, Len(calls[t]))

\* C9: whatever the other threads do, the requests of an invocation are those
\* of its own session: its k-th UploadPart carries part number k, the k-th
\* chunk of its own body and the upload id and key of its own
\* CreateMultipartUpload response, and its CompleteMultipartUpload lists the
\* parts it uploaded itself, each with the entity tag it was answered.
C9_NoInterference ==
    \A t \in Threads : \A i \in 1..Len(calls[t]) :
        LET req == calls[t][i]
            N == args[t].body
        IN /\ req.op = "UploadPart" =>
                /\ req.part_number = Some(i - 1)
                /\ req.body = Some(<<(i - 2) * 20 * MiB,
                                     Min((i - 1) * 20 * MiB, N)>>)
                /\ req.upload_id = resps[t][1].upload_id
                /\ req.key = resps[t][1].key
           /\ req.op = "CompleteMultipartUpload" =>
                /\ i = PartCount(N) + 2
                /\ req.upload_id = resps[t][1].upload_id
                /\ req.key = resps[t][1].key
                /\ req.multipart_upload =
                     Some([k \in 1..(i - 2) |->
                            [e_tag |-> resps[t][k + 1].e_tag[1],
                             part_number |-> k]])

\* C9 witness: two invocations with different bodies are both in the middle
\* of their part loops, under different upload ids.
C9_Witness ==
    \E t, u \in Threads :
        /\ t # u
        /\ args[t].body # args[u].body
        /\ pc[t] = "upload_part" /\ Len(calls[t]) >= 3
        /\ pc[u] = "upload_part" /\ Len(calls[u]) >= 4
        /\ upload[t].upload_id # upload[u].upload_id

\* C10: from_str rejects a location string whenever its scheme is not s3, or
\* it has a username or a password, a port, a query string or a fragment, or
\* its host is an IP literal: the result is BadUrl and no S3Prefix.
C10_RejectsBadLocations ==
    parsed # None =>
        ((\/ url.scheme # <<"s", "3">>
         \/ url.userinfo # <<>>
         \/ url.port # <<>>
         \/ url.query # <<>>
         \/ url.fragment # <<>>
         \/ url.host \in LocIpHosts) => (~parsed[1].ok))

\* C11: when from_str accepts a location string, showing the S3Prefix as
\* s3://{bucket}/{prefix} and parsing that string again succeeds and gives an
\* S3Prefix equal to the first one, also when the prefix is empty and the
\* string shown ends with the separator.
C11_RoundTrip ==
    reparsed # None => (reparsed[1].ok /\ reparsed[1] = parsed[1])

\* C11 witness: an S3Prefix with an empty prefix, parsed from a string
\* without a path, was shown with a trailing separator and parsed again.
C11_Witness ==
    /\ reparsed # None
    /\ url.path = <<>>
    /\ parsed[1].prefix = <<>>
    /\ shown[1][Len(shown[1])] = "/"

\* C12: for every accepted location string, bucket is the host and prefix is
\* the path without its one leading separator; the prefix is empty when the
\* path is absent or is the separator alone, and the prefix never starts with
\* the separator.
C12_BucketAndPrefix ==
    (parsed # None /\ parsed[1].ok) =>
        /\ parsed[1].bucket = url.host
        /\ parsed[1].prefix = SubSeq(url.path, 2, Len(url.path))
        /\ url.path \in {<<>>, <<"/">>} => parsed[1].prefix = <<>>
        /\ ~StartsWith(parsed[1].prefix, <<"/">>)

\* C13: for the same path, content type and encoding, the
\* CreateMultipartUpload request of the multipart path and the PutObject
\* request of the single-put path carry the same key, {prefix}/{path}, the
\* same public-read access policy, the same Content-Type and the same
\* content encoding, and both name the bucket of the writer.
C13_SameKeyAndMetadata ==
    \A t, u \in Threads :
        \A i \in Ops(t, "CreateMultipartUpload") : \A j \in Ops(u, "PutObject") :
            LET c == calls[t][i]
                p == calls[u][j]
            IN /\ c.bucket = Some(writer.bucket)
               /\ p.bucket = Some(writer.bucket)
               /\ c.key = Some(writer.prefix \o "/" \o args[t].path)
               /\ c.acl = Some("public-read")
               /\ c.content_type = Some(args[t].mime)
               /\ (/\ args[t].path = args[u].path
                   /\ args[t].mime = args[u].mime
                   /\ args[t].encoding_type = args[u].encoding_type) =>
                        /\ c.key = p.key
                        /\ c.acl = p.acl
                        /\ c.content_type = p.content_type
                        /\ c.content_encoding = p.content_encoding

\* C13 witness: a multipart invocation and a single-put invocation with the
\* same path, content type and Gzip encoding.
C13_Witness ==
    \E t, u \in Threads :
        /\ Ops(t, "CreateMultipartUpload") # {}
        /\ Ops(u, "PutObject") # {}
        /\ args[t].path = args[u].path
        /\ args[t].mime = args[u].mime
        /\ args[t].encoding_type = "Gzip"
        /\ args[u].encoding_type = "Gzip"

\* C14: the requests of a multipart invocation are strictly sequential: at
\* most one is unanswered, every request before the latest has been answered
\* with success, CreateMultipartUpload is the first, the UploadPart requests
\* follow it one after the other, and CompleteMultipartUpload comes after the
\* last UploadPart has been answered.
C14_StrictlySequential ==
    \A t \in Threads :
        /\ Len(calls[t]) - Len(resps[t]) \in {0, 1}
        /\ \A i \in 1..(Len(calls[t]) - 1) : i <= Len(resps[t]) /\ resps[t][i].ok
        /\ \A i \in 1..Len(calls[t]) :
            /\ calls[t][i].op = "CreateMultipartUpload" => i = 1
            /\ calls[t][i].op = "UploadPart" =>
                /\ i >= 2
                /\ calls[t][1].op = "CreateMultipartUpload"
                /\ \A k \in 2..(i - 1) : calls[t][k].op = "UploadPart"
            /\ calls[t][i].op = "CompleteMultipartUpload" =>
                /\ i = Len(calls[t])
                /\ i = PartCount(args[t].body) + 2
                /\ \A k \in 2..(i - 1) : calls[t][k].op = "UploadPart"

\* C14 witness: the third UploadPart of an invocation is unanswered while
\* another invocation waits for its CompleteMultipartUpload.
C14_Witness ==
    \E t, u \in Threads :
        /\ pc[t] = "upload_part"
        /\ Len(calls[t]) = 4
        /\ Len(resps[t]) = 3
        /\ pc[u] = "complete_multipart_upload"

\* C15: a CompleteMultipartUpload request is sent only after all
\* ceil(N / 20 MiB) UploadPart requests have succeeded, and its list has one
\* entry for each of them: the entry at position k has part number k and the
\* entity tag the service returned for the upload of part k.
C15_CompleteListsUploadedParts ==
    \A t \in Threads : \A i \in Ops(t, "CompleteMultipartUpload") :
        LET ps == calls[t][i].multipart_upload[1]
            n == PartCount(args[t].body)
        IN /\ Len(ps) = n
           /\ Cardinality(Ops(t, "UploadPart")) = n
           /\ \A k \in 1..n :
                /\ calls[t][k + 1].op = "UploadPart"
                /\ calls[t][k + 1].part_number = Some(k)
                /\ resps[t][k + 1].ok
                /\ ps[k].part_number = k
                /\ Some(ps[k].e_tag) = resps[t][k + 1].e_tag

\* C15 witness: two invocations have sent their CompleteMultipartUpload, one
\* for three parts and one for four.
C15_Witness ==
    \E t, u \in Threads :
        /\ \E i \in Ops(t, "CompleteMultipartUpload") :
                Len(calls[t][i].multipart_upload[1]) = 3
        /\ \E i \in Ops(u, "CompleteMultipartUpload") :
                Len(calls[u][i].multipart_upload[1]) = 4

\* C16: the chunks of a successful multipart invocation partition the body:
\* part k is body[(k-1) * 20 MiB .. min(k * 20 MiB, N)), so the chunks are
\* consecutive, disjoint and non-empty, the first starts at 0 and the last
\* ends at N.
C16_ChunksPartitionBody ==
    \A t \in Threads :
        (result[t] = "ok" /\ args[t].body >= 50 * MiB) =>
            LET N == args[t].body
                up == UploadParts(t)
                lo(k) == up[k].body[1][1]
                hi(k) == up[k].body[1][2]
            IN /\ Len(up) >= 1
               /\ lo(1) = 0
               /\ hi(Len(up)) = N
               /\ \A k \in 1..Len(up) :
                    /\ lo(k) = (k - 1) * 20 * MiB
                    /\ hi(k) = Min(k * 20 * MiB, N)
                    /\ lo(k) < hi(k)
                    /\ k < Len(up) => hi(k) = lo(k + 1)

\* C16 witness: a successful invocation whose body of 60 MiB + 1 bytes ends
\* with a chunk of one byte.
C16_Witness ==
    \E t \in Threads :
        /\ result[t] = "ok"
        /\ args[t].body = 60 * MiB + 1
        /\ SizeOf(UploadParts(t)[4]) = 1

\* C17: every UploadPart request and the CompleteMultipartUpload request of
\* an invocation carry the upload id and the key of the response to its own
\* CreateMultipartUpload and the bucket of the writer, and never the upload
\* id that another invocation in progress was given.
C17_SessionBinding ==
    \A t \in Threads : \A i \in 1..Len(calls[t]) :
        calls[t][i].op \in {"UploadPart", "CompleteMultipartUpload"} =>
            /\ resps[t][1].ok
            /\ calls[t][i].upload_id = resps[t][1].upload_id
            /\ calls[t][i].upload_id # None
            /\ calls[t][i].key = resps[t][1].key
            /\ calls[t][i].bucket = Some(writer.bucket)
            /\ \A u \in Threads \ {t} :
                (pc[t] # "idle" /\ upload[u].upload_id # None) =>
                    calls[t][i].upload_id # upload[u].upload_id

\* C17 witness: two invocations in progress, each with an UploadPart sent
\* under its own upload id.
C17_Witness ==
    \E t, u \in Threads :
        /\ t # u
        /\ Ops(t, "UploadPart") # {} /\ pc[t] # "idle"
        /\ Ops(u, "UploadPart") # {} /\ pc[u] # "idle"
        /\ upload[t].upload_id # upload[u].upload_id

\* C19 as stated: every multipart invocation attempts at least one UploadPart,
\* and every CompleteMultipartUpload request lists at least 3 parts.
C19_AlwaysOnePart ==
    \A t \in Threads :
        /\ (Returned(t) /\ args[t].body >= 50 * MiB) => Ops(t, "UploadPart") # {}
        /\ \A i \in Ops(t, "CompleteMultipartUpload") :
                Len(calls[t][i].multipart_upload[1]) >= 3

\* C19 amended: every multipart invocation whose CreateMultipartUpload
\* succeeded attempts at least one UploadPart, and every
\* CompleteMultipartUpload request lists at least 3 parts.
C19_OnePartAfterCreate ==
    \A t \in Threads :
        /\ (/\ Returned(t)
            /\ args[t].body >= 50 * MiB
            /\ ~Failed(t, 1)) => Ops(t, "UploadPart") # {}
        /\ (pc[t] = "complete_multipart_upload") => Ops(t, "UploadPart") # {}
        /\ \A i \in Ops(t, "CompleteMultipartUpload") :
                Len(calls[t][i].multipart_upload[1]) >= 3

\* C19 witness: an invocation with a body of exactly 50 MiB has sent a
\* CompleteMultipartUpload that lists three parts.
C19_Witness ==
    \E t \in Threads : \E i \in Ops(t, "CompleteMultipartUpload") :
        /\ args[t].body = 50 * MiB
        /\ Len(calls[t][i].multipart_upload[1]) = 3

\* C18: when every request is answered, every invocation returns Ok or an
\* error; it sends at most 1 request on the single-put path and at most
\* ceil(N / 20 MiB) + 2 on the multipart path, and every answered UploadPart
\* moves the offset of the loop forward by 20 MiB.
C18_Termination ==
    /\ [](\A t \in Threads :
            Len(calls[t]) <= IF args[t].body < 50 * MiB
                             THEN 1 ELSE PartCount(args[t].body) + 2)
    /\ [][\A t \in Threads :
            (pc[t] = "upload_part" /\ pc'[t] = "loop") =>
                start'[t] = start[t] + 20 * MiB]_vars
    /\ \A t \in Callers : (pc[t] # "idle") ~> (pc[t] = "idle" /\ Returned(t))

\* C18 witness: an invocation with four parts has returned after six requests.
C18_Witness ==
    \E t \in Threads :
        /\ Returned(t)
        /\ PartCount(args[t].body) = 4
        /\ Len(calls[t]) = 6

\* The upload session that the answer to create_multipart_upload opens.
SessionOf(rs) == [upload_id |-> rs[1].upload_id, key |-> rs[1].key]
\* The completed parts 1..n, with the entity tags of the answers 2..n+1.
CompletedParts(rs, n) ==
    [i \in 1..n |-> [e_tag |-> rs[i + 1].e_tag[1], part_number |-> i]]
\* The i-th request of an invocation that starts a fresh session: the single
\* put, or the upload opened, its parts numbered from 1 at offsets from 0,
\* and the completion with all parts.
FreshRequest(w, a, rs, i) ==
    IF a.body < 50 * MiB THEN PutObjectRequest(w, a)
    ELSE IF i = 1 THEN CreateMultipartUploadRequest(w, a)
    ELSE IF i <= PartCount(a.body) + 1
    THEN UploadPartRequest(w, a, SessionOf(rs), i - 1, (i - 2) * 20 * MiB)
    ELSE CompleteMultipartUploadRequest(w, SessionOf(rs),
                                        CompletedParts(rs, PartCount(a.body)))
\* The requests of an invocation all of whose requests succeed.
TotalRequests(a) == IF a.body < 50 * MiB THEN 1 ELSE PartCount(a.body) + 2
\* How many requests have been sent once the answers rs are in and the next
\* request, if any, is out: one more than answered while all answers are Ok
\* and the upload is not complete.
SentAfter(a, rs) ==
    IF \E i \in 1..Len(rs) : ~rs[i].ok THEN Len(rs)
    ELSE IF Len(rs) < TotalRequests(a) THEN Len(rs) + 1
    ELSE Len(rs)
\* The requests of an invocation as a function of the writer, its arguments
\* and the answers it has received, and of nothing else.
RequestsOf(w, a, rs) ==
    [i \in 1..SentAfter(a, rs) |-> FreshRequest(w, a, rs, i)]

\* C20: no state is carried from one write_bytes call to the next.  No step
\* changes the writer's bucket and prefix; whatever calls came before and
\* however they ended, the loop is entered with part = 1, start = 0 and an
\* empty part list, and the requests of an invocation are those of a fresh
\* session, determined by its own arguments and the answers to its own
\* requests: between an answer and the next request the log is that of the
\* answers before, and else it is RequestsOf.
C20_NoCarriedState ==
    /\ [][writer' = writer]_vars
    /\ [][\A t \in Threads :
            (pc[t] = "create_multipart_upload" /\ pc'[t] = "loop") =>
                part'[t] = 1 /\ start'[t] = 0 /\ parts'[t] = <<>>]_vars
    /\ [](\A t \in Threads :
            Invoked(t) =>
                IF pc[t] = "loop"
                THEN calls[t] = SubSeq(RequestsOf(writer, args[t], resps[t]),
                                       1, Len(resps[t]))
                ELSE calls[t] = RequestsOf(writer, args[t], resps[t]))

\* C20 witness: the invocation before failed at its second part, and the
\* current one, a multipart upload again, has sent its second part.
C20_Witness ==
    \E t \in Threads :
        /\ earlier[t] = [result |-> "err", answered |-> 3]
        /\ pc[t] = "upload_part"
        /\ calls[t][Len(calls[t])].part_number = Some(2)
====
